---- MODULE Spec2Model ----
(***************************************************************************)
(* Model of the ESP32 gateway (Express + http-proxy-middleware).           *)
(* Two builds of the server are in the repository: src/index.js ("index")  *)
(* and src/unnamed/part_000 ("part_000").  A behaviour fixes one build at   *)
(* Init and then serves requests in a fixed set of concurrent sessions:     *)
(* either one client sending any request of AllRequests, or two concurrent *)
(* clients sending the requests of ConcurrentRequests.                     *)
(*                                                                         *)
(* Paths are sequences of segments: "/api/forward" is <<"api","forward">>, *)
(* "/" is << >>.  A header map gives every header name a value, "absent"   *)
(* when the header is not set.                                             *)
(***************************************************************************)
EXTENDS Naturals, Sequences, FiniteSets, TLC

VARIABLES build, clients, alive, sess

vars == <<build, clients, alive, sess>>

\* ---------------------------------------------------------------- bounds
\* Most body chunks an upstream sends in one response.
MaxChunks == 2
\* Most upstream events in flight (sent, not yet handled by the gateway).
MaxInFlight == 1

Builds == {"index", "part_000"}
Sessions == {"s1", "s2"}
\* The sets of clients a behaviour may have.
Crowds == {{"s1"}, Sessions}

\* ------------------------------------------------------- configuration
ESP_CAR_IP == "192.168.4.1"

ESP_CAM_IP(b) == IF b = "index" THEN "192.168.225.143" ELSE "192.168.1.100"

motorCommands == <<"forward", "backward", "left", "right", "stop">>

valveCommands == <<"valve1_on", "valve1_off", "valve2_on", "valve2_off">>

Range(f) == {f[i] : i \in DOMAIN f}

Commands == Range(motorCommands) \cup Range(valveCommands)

STREAM_CONTENT_TYPE == "multipart/x-mixed-replace; boundary=123456789000000000000987654321"

\* ------------------------------------------------------------- headers
HeaderNames == {"acao", "ctype", "cache", "pragma", "expires"}

NoHeaders == [h \in HeaderNames |-> "absent"]

\* res.setHeader / proxyRes.headers[k] = v for each set header of `over`:
\* a later write replaces an earlier one, header names are case-insensitive.
SetHeaders(base, over) ==
  [h \in HeaderNames |-> IF over[h] # "absent" THEN over[h] ELSE base[h]]

\* app.use(cors({origin: '*', ...})): every response object starts with
\* Access-Control-Allow-Origin: * before any route handler runs.
CorsMiddleware(hdr) == [hdr EXCEPT !["acao"] = "*"]

\* --------------------------------------------------------- route table
\* kind: "status" | "root" | "proxy" (middleware mounted directly)
\*     | "pipe"  (part_000's req.pipe(createProxyMiddleware(..)(req,res,next)))
\* policy names the onProxyRes callback, onError the error callback.
ProxyRoute(name, host, tpath, policy, onErr, kind) ==
  [path |-> <<"api", name>>, kind |-> kind, name |-> name,
   target |-> [host |-> host, path |-> tpath],
   rewriteFrom |-> <<"api", name>>, rewriteTo |-> <<name>>,
   policy |-> policy, onError |-> onErr]

LocalRoute(path, kind) ==
  [path |-> path, kind |-> kind, name |-> kind,
   target |-> [host |-> "local", path |-> << >>],
   rewriteFrom |-> << >>, rewriteTo |-> << >>,
   policy |-> "none", onError |-> "none"]

SensorRoute(b) ==
  ProxyRoute("sensor", ESP_CAR_IP, << >>,
             IF b = "index" THEN "cors" ELSE "none", "json", "proxy")

CommandRoute(c) == ProxyRoute(c, ESP_CAR_IP, << >>, "cors", "json", "proxy")

StreamRoute(b) ==
  IF b = "index"
    THEN ProxyRoute("stream", ESP_CAM_IP(b), << >>, "stream", "text", "proxy")
    ELSE ProxyRoute("stream", ESP_CAM_IP(b), <<"stream">>, "stream_v0", "default", "pipe")

\* Registration order of app.get(...).
Routes(b) ==
  <<LocalRoute(<<"api", "status">>, "status"), SensorRoute(b)>>
    \o [i \in 1..Len(motorCommands) |-> CommandRoute(motorCommands[i])]
    \o [i \in 1..Len(valveCommands) |-> CommandRoute(valveCommands[i])]
    \o <<StreamRoute(b), LocalRoute(<< >>, "root")>>

\* Express route matching (default, non-strict): the path itself, or the
\* path followed by one trailing slash (an empty last segment).
ExpressMatch(routePath, reqPath) ==
  \/ reqPath = routePath
  \/ reqPath = routePath \o <<"">>

\* Index in Routes(b) of the first app.get route matching the request; 0 when
\* none does (the request falls through to Express's default 404 handler).
\* Express runs a route registered with app.get for HEAD requests as well.
MatchRoute(b, method, path) ==
  IF method \notin {"GET", "HEAD"} THEN 0
  ELSE LET hits == {i \in DOMAIN Routes(b) : ExpressMatch(Routes(b)[i].path, path)}
       IN IF hits = {} THEN 0 ELSE CHOOSE i \in hits : \A j \in hits : i <= j

\* ------------------------------------------------------ path rewriting
IsPrefix(p, s) == Len(p) <= Len(s) /\ SubSeq(s, 1, Len(p)) = p

\* pathRewrite {'^/api/X': '/X'}: the regular expression is anchored at the
\* start of req.url; the text after the match (and the query) is kept.
PathRewrite(route, path) ==
  IF IsPrefix(route.rewriteFrom, path)
    THEN route.rewriteTo \o SubSeq(path, Len(route.rewriteFrom) + 1, Len(path))
    ELSE path

\* http-proxy builds the outgoing path by joining the target's own path and
\* the (rewritten) request path.
UrlJoin(targetPath, path) == targetPath \o path

\* The upstream request the proxy middleware issues for a request.
UpstreamRequest(route, method, path, query) ==
  [host |-> route.target.host,
   path |-> UrlJoin(route.target.path, PathRewrite(route, path)),
   method |-> method, query |-> query]

\* ------------------------------------------------------ response bodies
JsonKeys == {"error", "status", "timestamp", "car_ip", "cam_ip"}

NoJson == [k \in JsonKeys |-> "absent"]

NoBody == [kind |-> "none", json |-> NoJson, text |-> << >>]

\* res.json({ error: `Proxy error for ${name}` })
JsonErrorBody(name) ==
  [kind |-> "json",
   json |-> [NoJson EXCEPT !["error"] = "Proxy error for " \o name],
   text |-> << >>]

\* res.send(<string>), res.end(<string>), Express's default error page
TextBody(words) == [kind |-> "text", json |-> NoJson, text |-> words]

\* Mutant of StatusBody: the two addresses are reported under each other's key.
StatusBodySwapped(b) ==
  [kind |-> "json",
   json |-> [NoJson EXCEPT !["status"] = "OK", !["timestamp"] = "now",
                           !["car_ip"] = ESP_CAM_IP(b), !["cam_ip"] = ESP_CAR_IP],
   text |-> << >>]

\* res.json({status: 'OK', timestamp, car_ip, cam_ip})
StatusBody(b) ==
  [kind |-> "json",
   json |-> [NoJson EXCEPT !["status"] = "OK", !["timestamp"] = "now",
                           !["car_ip"] = ESP_CAR_IP, !["cam_ip"] = ESP_CAM_IP(b)],
   text |-> << >>]

\* the body piped from the upstream response (its chunks are in `delivered`)
RelayedBody == [kind |-> "upstream", json |-> NoJson, text |-> << >>]

\* ------------------------------------------------- response callbacks
\* Mutant of OnProxyResHeaders: the callback is missing.
OnProxyResHeadersOmitted(policy, h) == h

\* onProxyRes: the callback writes into proxyRes.headers before http-proxy
\* copies them to the client response.
OnProxyResHeaders(policy, h) ==
  CASE policy = "cors" -> [h EXCEPT !["acao"] = "*"]
    [] policy = "stream" ->
         [h EXCEPT !["ctype"] = STREAM_CONTENT_TYPE,
                   !["acao"] = "*",
                   !["cache"] = "no-cache, no-store, must-revalidate",
                   !["pragma"] = "no-cache",
                   !["expires"] = "0"]
    [] policy = "stream_v0" ->
         [h EXCEPT !["ctype"] = STREAM_CONTENT_TYPE,
                   !["acao"] = "*",
                   !["cache"] = "no-cache"]
    [] OTHER -> h

\* http-proxy-middleware's default error handler picks the status by code.
DefaultErrorStatus(code) ==
  IF code \in {"ECONNRESET", "ENOTFOUND", "ECONNREFUSED", "ETIMEDOUT"}
    THEN 504 ELSE 500

\* The response an error callback writes when no head was written yet.
\* json: res.status(500).json({error}); text: res.status(500).send(string);
\* default: res.writeHead(504|500); res.end(string).
ErrorStatus(onErr, code) ==
  IF onErr = "default" THEN DefaultErrorStatus(code) ELSE 500

ErrorHeaders(onErr, hdr) ==
  CASE onErr = "json" -> [hdr EXCEPT !["ctype"] = "application/json; charset=utf-8"]
    [] onErr = "text" -> [hdr EXCEPT !["ctype"] = "text/html; charset=utf-8"]
    [] OTHER -> hdr

\* Mutant of ErrorBody: every route answers a failure with the JSON body.
ErrorBodyAlwaysJson(onErr, name) == JsonErrorBody(name)

ErrorBody(onErr, name) ==
  CASE onErr = "json" -> JsonErrorBody(name)
    [] onErr = "text" -> TextBody(<<"Stream unavailable - Check CAM IP connectivity">>)
    [] OTHER -> TextBody(<<"Error occurred while trying to proxy">>)

\* Mutant of ErrorCallbackThrows: the callback throws whenever it is called.
ErrorCallbackAlwaysThrows(onErr, headWrites) == onErr \in {"json", "text"}

\* json and text callbacks go through Express's res.json / res.send, which
\* set headers and so throw once the head was sent; the default handler
\* tests res.headersSent first.
ErrorCallbackThrows(onErr, headWrites) ==
  onErr \in {"json", "text"} /\ headWrites > 0

\* ------------------------------------------------------- environment
Req(method, path, query) == [method |-> method, path |-> path, query |-> query]

\* Paths clients ask for: every registered path, and one that is not.
RequestPaths ==
  {<<"api", c>> : c \in Commands \cup {"sensor", "stream", "status", "unknown"}}
    \cup {<< >>}

\* Paths next to a registered one: /api/forward/, /api/forward/extra, /forward.
NearbyPaths ==
  {<<"api", "forward", "">>, <<"api", "forward", "extra">>, <<"forward">>}

Queries == {"", "speed=5"}

\* Requests of a client that is alone.
AllRequests ==
  {Req("GET", p, q) : p \in RequestPaths, q \in Queries}
    \cup {Req("GET", p, "") : p \in NearbyPaths}
    \cup {Req(m, <<"api", "forward">>, "") : m \in {"POST", "HEAD"}}

\* Requests of two concurrent clients.
ConcurrentRequests ==
  {Req("GET", <<"api", "forward">>, "speed=5"),
   Req("GET", <<"api", "stop">>, ""),
   Req("GET", <<"api", "status">>, "")}

RequestsOf(cs) == IF Cardinality(cs) = 1 THEN AllRequests ELSE ConcurrentRequests

\* Heads (status and headers) an upstream device may answer with.
UpstreamHeads ==
  { [status |-> 200, hdr |-> NoHeaders],
    [status |-> 200,
     hdr |-> [NoHeaders EXCEPT !["acao"] = "http://other.example",
                               !["ctype"] = "image/jpeg",
                               !["cache"] = "max-age=60",
                               !["expires"] = "Thu, 01 Jan 2099 00:00:00 GMT"]],
    [status |-> 404,
     hdr |-> [NoHeaders EXCEPT !["acao"] = "*", !["ctype"] = "text/plain"]] }

\* With two concurrent clients the devices answer with the first head only.
HeadsOf(cs) ==
  IF Cardinality(cs) = 1 THEN UpstreamHeads
  ELSE {h \in UpstreamHeads : h.status = 200 /\ h.hdr = NoHeaders}

NoHead == [status |-> 0, hdr |-> NoHeaders]

\* Events an upstream puts on its connection to the gateway.
Event(type, head, chunk, code) ==
  [type |-> type, head |-> head, chunk |-> chunk, code |-> code]

ConnectErrors == {"ECONNREFUSED", "EHOSTUNREACH", "ETIMEDOUT"}

\* ---------------------------------------------------------------- state
\* cl: the client side of a session
\*   "none" no request | "waiting" request accepted, no head written
\*   "streaming" head written, body open | "ended" response complete
\*   "gone" the client closed the connection | "dropped" the process died
\* up: the gateway's connection to the upstream
\*   "none" | "pending" request issued, no response | "streaming" response
\*   piped to the client | "paused" response open but not read
\*   "ended" response complete | "closed" aborted, failed or destroyed
\* src: the upstream device's side: "idle" | "req" | "body" | "done"
FreeSession ==
  [cl |-> "none", method |-> "", path |-> << >>, query |-> "", route |-> 0,
   up |-> "none", upReqs |-> << >>, wire |-> << >>, src |-> "idle",
   sent |-> 0, upHead |-> NoHead, fault |-> "none", closeEv |-> FALSE,
   headWrites |-> 0, status |-> 0, hdr |-> NoHeaders, body |-> NoBody,
   delivered |-> << >>]

Init ==
  /\ build \in Builds
  /\ clients \in Crowds
  /\ alive = TRUE
  /\ sess = [s \in Sessions |-> FreeSession]

RouteOf(s) == Routes(build)[sess[s].route]

IsProxied(s) == sess[s].route # 0 /\ RouteOf(s).kind \in {"proxy", "pipe"}

UpOpen(s) == sess[s].up \in {"pending", "streaming", "paused"}

\* ------------------------------------------------------ request entry
\* A response written at once by a local handler.
LocalResponse(x, status, hdr, body) ==
  [x EXCEPT !.cl = "ended", !.headWrites = 1, !.status = status,
            !.hdr = hdr, !.body = body]

\* createProxyMiddleware(...)(req, res, next): the upstream request is issued.
StartProxy(x, route) ==
  [x EXCEPT !.up = "pending", !.src = "req",
            !.upReqs = Append(x.upReqs,
                              UpstreamRequest(route, x.method, x.path, x.query))]

\* Express dispatch of one request: cors middleware, then the first matching
\* app.get handler, else the default 404 handler.
Dispatch(b, method, path, query) ==
  LET r == MatchRoute(b, method, path)
      x == [FreeSession EXCEPT !.method = method, !.path = path,
                               !.query = query, !.route = r,
                               !.hdr = CorsMiddleware(NoHeaders)]
      ct(v) == [x.hdr EXCEPT !["ctype"] = v]
  IN IF r = 0
       THEN LocalResponse(x, 404, ct("text/html; charset=utf-8"),
                          TextBody(<<"Cannot", method>>))
     ELSE LET route == Routes(b)[r] IN
       CASE route.kind = "status" ->
              LocalResponse(x, 200, ct("application/json; charset=utf-8"),
                            StatusBody(b))
         [] route.kind = "root" ->
              LocalResponse(x, 200, ct("text/html; charset=utf-8"),
                            TextBody(<<"Backend Running">>))
         [] route.kind = "proxy" ->
              [StartProxy(x, route) EXCEPT !.cl = "waiting"]
         [] OTHER ->
              \* part_000: the middleware returns a Promise; req.pipe(promise)
              \* throws a TypeError, Express answers 500 with its error page,
              \* and the proxy request started by the call goes on.
              LocalResponse(StartProxy(x, route), 500,
                            ct("text/html; charset=utf-8"),
                            TextBody(<<"TypeError">>))

\* Mutant of Request: requests are served one at a time, a new one is not
\* dispatched while another session waits for its upstream.
RequestSerialized(s) ==
  /\ alive
  /\ s \in clients
  /\ sess[s].cl = "none"
  /\ \A t \in Sessions : sess[t].cl # "waiting"
  /\ \E r \in RequestsOf(clients) :
       sess' = [sess EXCEPT ![s] = Dispatch(build, r.method, r.path, r.query)]
  /\ UNCHANGED <<build, clients, alive>>

\* Mutant of Request: handling a request replaces the loaded configuration.
RequestReconfigures(s) ==
  /\ alive
  /\ s \in clients
  /\ sess[s].cl = "none"
  /\ \E r \in RequestsOf(clients) :
       sess' = [sess EXCEPT ![s] = Dispatch(build, r.method, r.path, r.query)]
  /\ build' \in Builds \ {build}
  /\ UNCHANGED <<clients, alive>>

Request(s) ==
  /\ alive
  /\ s \in clients
  /\ sess[s].cl = "none"
  /\ \E r \in RequestsOf(clients) :
       sess' = [sess EXCEPT ![s] = Dispatch(build, r.method, r.path, r.query)]
  /\ UNCHANGED <<build, clients, alive>>

\* ---------------------------------------------- upstream device (env)
CanSend(s) ==
  /\ alive
  /\ UpOpen(s)
  /\ Len(sess[s].wire) < MaxInFlight

Send(s, ev, src) ==
  sess' = [sess EXCEPT ![s].wire = Append(@, ev), ![s].src = src]

\* connect refused / host unreachable / connect timed out
UpstreamConnFail(s) ==
  /\ CanSend(s)
  /\ sess[s].src = "req"
  /\ \E code \in ConnectErrors : Send(s, Event("error", NoHead, 0, code), "done")
  /\ UNCHANGED <<build, clients, alive>>

UpstreamHead(s) ==
  /\ CanSend(s)
  /\ sess[s].src = "req"
  /\ \E h \in HeadsOf(clients) :
       sess' = [sess EXCEPT ![s].wire = Append(@, Event("head", h, 0, "")),
                            ![s].src = "body", ![s].upHead = h]
  /\ UNCHANGED <<build, clients, alive>>

UpstreamChunk(s) ==
  /\ CanSend(s)
  /\ sess[s].src = "body"
  /\ sess[s].sent < MaxChunks
  /\ sess' = [sess EXCEPT
                ![s].wire = Append(@, Event("chunk", NoHead, sess[s].sent + 1, "")),
                ![s].sent = @ + 1]
  /\ UNCHANGED <<build, clients, alive>>

\* the response ends as HTTP framing says it should
UpstreamEnd(s) ==
  /\ CanSend(s)
  /\ sess[s].src = "body"
  /\ Send(s, Event("end", NoHead, 0, ""), "done")
  /\ UNCHANGED <<build, clients, alive>>

\* the device drops the connection: a reset at any time, or a close in the
\* middle of the body (before the head a close is a "socket hang up" error,
\* the same ECONNRESET as a reset)
UpstreamDrop(s) ==
  /\ CanSend(s)
  /\ \/ /\ sess[s].src \in {"req", "body"}
        /\ Send(s, Event("error", NoHead, 0, "ECONNRESET"), "done")
     \/ /\ sess[s].src = "body"
        /\ Send(s, Event("close", NoHead, 0, ""), "done")
  /\ UNCHANGED <<build, clients, alive>>

\* ------------------------------------------------------- client (env)
\* the client closes its connection before the response is complete
ClientAbort(s) ==
  /\ alive
  /\ IsProxied(s)
  /\ sess[s].cl \in {"waiting", "streaming"}
  /\ sess' = [sess EXCEPT ![s].cl = "gone", ![s].closeEv = TRUE]
  /\ UNCHANGED <<build, clients, alive>>

\* ------------------------------------------------- gateway handlers
HasEvent(s, type) ==
  /\ alive
  /\ sess[s].wire # << >>
  /\ Head(sess[s].wire).type = type

\* http-proxy's 'response' handler: emit proxyRes (the onProxyRes callback),
\* copy status and headers unless the head was already sent, pipe the body
\* unless the response was already finished.
RelayHead(x, route, head) ==
  LET ph == OnProxyResHeaders(route.policy, head.hdr)
      y == IF x.headWrites = 0
             THEN [x EXCEPT !.hdr = SetHeaders(x.hdr, ph),
                            !.status = head.status,
                            !.headWrites = 1,
                            !.body = RelayedBody]
             ELSE x
  IN IF x.cl = "ended"
       THEN [y EXCEPT !.up = "paused"]
       ELSE [y EXCEPT !.up = "streaming",
                      !.cl = IF @ = "waiting" THEN "streaming" ELSE @]

OnProxyRes(s) ==
  /\ HasEvent(s, "head")
  /\ sess[s].up = "pending"
  /\ sess' = [sess EXCEPT ![s] =
       [RelayHead(sess[s], RouteOf(s), Head(sess[s].wire).head)
          EXCEPT !.wire = Tail(@)]]
  /\ UNCHANGED <<build, clients, alive>>

\* proxyRes.pipe(res): a chunk read from the upstream is written to the
\* client at once; a write to a closed client stalls the pipe.
PipeData(x, chunk) ==
  IF x.cl = "streaming"
    THEN [x EXCEPT !.delivered = Append(@, chunk)]
    ELSE [x EXCEPT !.up = "paused"]

OnData(s) ==
  /\ HasEvent(s, "chunk")
  /\ sess[s].up = "streaming"
  /\ sess' = [sess EXCEPT ![s] =
       [PipeData(sess[s], Head(sess[s].wire).chunk) EXCEPT !.wire = Tail(@)]]
  /\ UNCHANGED <<build, clients, alive>>

\* proxyRes 'end': the pipe ends the client response.
PipeEnd(x) ==
  [x EXCEPT !.up = "ended",
            !.cl = IF @ = "streaming" THEN "ended" ELSE @]

OnEnd(s) ==
  /\ HasEvent(s, "end")
  /\ sess[s].up = "streaming"
  /\ sess' = [sess EXCEPT ![s] = [PipeEnd(sess[s]) EXCEPT !.wire = Tail(@)]]
  /\ UNCHANGED <<build, clients, alive>>

\* The upstream socket closes before the body is complete: proxyRes is
\* destroyed ('aborted', 'close'), and no listener of the gateway touches
\* the client response.  Whether proxyRes still emits 'end' after 'aborted'
\* depends on the Node.js version: when it does not, the pipe never ends
\* the client response ...
PipeAborted(x) == [x EXCEPT !.up = "closed", !.fault = "premature"]

OnUpstreamCloseAborted(s) ==
  /\ HasEvent(s, "close")
  /\ sess[s].up \in {"streaming", "paused"}
  /\ sess' = [sess EXCEPT ![s] = [PipeAborted(sess[s]) EXCEPT !.wire = Tail(@)]]
  /\ UNCHANGED <<build, clients, alive>>

\* ... and when it does, the pipe ends the client response as on a regular end.
OnUpstreamCloseEnded(s) ==
  /\ HasEvent(s, "close")
  /\ sess[s].up = "streaming"
  /\ sess' = [sess EXCEPT ![s] =
       [PipeEnd(PipeAborted(sess[s])) EXCEPT !.up = "closed", !.wire = Tail(@)]]
  /\ UNCHANGED <<build, clients, alive>>

OnUpstreamClose(s) == OnUpstreamCloseAborted(s) \/ OnUpstreamCloseEnded(s)

FaultOf(code) == IF code \in ConnectErrors THEN "unreachable" ELSE "reset"

\* Mutant of ErrorResponse: the failed request is sent to the upstream again.
ErrorResponseRetry(x, route, code) ==
  [x EXCEPT !.fault = FaultOf(code),
            !.src = "req",
            !.upReqs = Append(@, UpstreamRequest(route, x.method, x.path, x.query))]

\* The error callback's effect on the session when it does not throw.
ErrorResponse(x, route, code) ==
  LET y == [x EXCEPT !.up = "closed", !.fault = FaultOf(code)]
  IN IF x.headWrites = 0
       THEN [y EXCEPT !.status = ErrorStatus(route.onError, code),
                      !.hdr = ErrorHeaders(route.onError, x.hdr),
                      !.body = ErrorBody(route.onError, route.name),
                      !.headWrites = 1,
                      !.cl = IF @ = "waiting" THEN "ended" ELSE @]
       ELSE [y EXCEPT !.cl = IF @ = "streaming" THEN "ended" ELSE @]

\* An exception thrown inside an event listener is uncaught: the process
\* exits and every open connection goes with it.
Crash(ss, s) ==
  [t \in Sessions |->
     [ss[t] EXCEPT !.cl = IF @ \in {"waiting", "streaming"} THEN "dropped" ELSE @,
                   !.up = IF @ \in {"pending", "streaming", "paused"}
                            THEN "closed" ELSE @,
                   !.wire = << >>,
                   !.closeEv = FALSE,
                   !.fault = IF t = s THEN "crash" ELSE @]]

\* http-proxy's proxyError: a reset seen after the client socket is gone
\* only aborts the upstream request; anything else goes to the error callback.
OnProxyError(s) ==
  /\ HasEvent(s, "error")
  /\ UpOpen(s)
  /\ LET x == sess[s]
         code == Head(x.wire).code
         route == RouteOf(s)
     IN IF x.cl = "gone" /\ code = "ECONNRESET"
          THEN /\ sess' = [sess EXCEPT ![s] =
                    [x EXCEPT !.up = "closed", !.fault = "reset", !.wire = Tail(@)]]
               /\ alive' = alive
        ELSE IF ErrorCallbackThrows(route.onError, x.headWrites)
          THEN /\ sess' = Crash(sess, s)
               /\ alive' = FALSE
        ELSE /\ sess' = [sess EXCEPT ![s] =
                    [ErrorResponse(x, route, code) EXCEPT !.wire = Tail(@)]]
             /\ alive' = alive
  /\ UNCHANGED <<build, clients>>

\* The client socket closed.  Whether the runtime emits 'aborted' on a
\* request that was already read in full depends on the Node.js version:
\* when it does, http-proxy aborts the upstream request ...
OnClientCloseAborted(s) ==
  /\ alive
  /\ sess[s].closeEv
  /\ sess' = [sess EXCEPT ![s].closeEv = FALSE,
                          ![s].up = IF UpOpen(s) THEN "closed" ELSE @,
                          ![s].wire = << >>]
  /\ UNCHANGED <<build, clients, alive>>

\* ... and when it does not, only the pipe is undone: the upstream response
\* is paused and its connection stays open.
OnClientCloseUnpiped(s) ==
  /\ alive
  /\ sess[s].closeEv
  /\ sess' = [sess EXCEPT ![s].closeEv = FALSE,
                          ![s].up = IF @ = "streaming" THEN "paused" ELSE @]
  /\ UNCHANGED <<build, clients, alive>>

OnClientClose(s) == OnClientCloseAborted(s) \/ OnClientCloseUnpiped(s)

\* Both connections of a session are finished: its resources are released
\* and the slot serves the next request.
Recycle(s) ==
  /\ alive
  /\ sess[s].cl \in {"ended", "gone"}
  /\ ~sess[s].closeEv
  /\ ~UpOpen(s)
  /\ sess' = [sess EXCEPT ![s] = FreeSession]
  /\ UNCHANGED <<build, clients, alive>>

\* -------------------------------------------------------- specification
Next ==
  \E s \in Sessions :
    \/ Request(s)
    \/ UpstreamConnFail(s)
    \/ UpstreamHead(s)
    \/ UpstreamChunk(s)
    \/ UpstreamEnd(s)
    \/ UpstreamDrop(s)
    \/ ClientAbort(s)
    \/ OnProxyRes(s)
    \/ OnData(s)
    \/ OnEnd(s)
    \/ OnUpstreamCloseAborted(s)
    \/ OnUpstreamCloseEnded(s)
    \/ OnProxyError(s)
    \/ OnClientCloseAborted(s)
    \/ OnClientCloseUnpiped(s)
    \/ Recycle(s)

Spec == Init /\ [][Next]_vars

\* The event loop runs the listener of every event that has arrived; the
\* devices and the clients are under no obligation.
Fairness ==
  \A s \in Sessions :
    /\ WF_vars(OnProxyRes(s))
    /\ WF_vars(OnData(s))
    /\ WF_vars(OnEnd(s))
    /\ WF_vars(OnUpstreamClose(s))
    /\ WF_vars(OnProxyError(s))
    /\ WF_vars(OnClientClose(s))

FairSpec == Spec /\ Fairness

\* ================================================================ claims
IsGet(s, name) ==
  /\ sess[s].cl # "none"
  /\ sess[s].method = "GET"
  /\ sess[s].path = <<"api", name>>

ControllerNames == Commands \cup {"sensor"}

ChunksUpTo(n) == [i \in 1..n |-> i]

\* ------------------------------------------------------------------ C1
\* C1: one inbound GET /api/R on a command route causes exactly one upstream
\* request, to the controller, at path /R, with the same method and query
\* string; no second upstream request is issued, also after a failure.
C1_ExactlyOneUpstreamRequest ==
  \A s \in Sessions, c \in Commands :
    IsGet(s, c) =>
      sess[s].upReqs = << [host |-> ESP_CAR_IP, path |-> <<c>>,
                           method |-> "GET", query |-> sess[s].query] >>

\* a command request with a query string whose upstream request failed
C1_Witness ==
  \E s \in Sessions :
    /\ IsGet(s, "valve2_off")
    /\ sess[s].query = "speed=5"
    /\ sess[s].fault = "unreachable"
    /\ Len(sess[s].upReqs) = 1

\* ------------------------------------------------------------------ C2
\* C2: on a command route, a response relayed from the upstream has the
\* upstream's status code and, once complete, the upstream's body unchanged;
\* its Access-Control-Allow-Origin is "*" whatever the upstream sent.
C2_RelayedUnchangedWithCors ==
  \A s \in Sessions, c \in Commands :
    (IsGet(s, c) /\ sess[s].body.kind = "upstream") =>
      /\ sess[s].status = sess[s].upHead.status
      /\ sess[s].hdr["acao"] = "*"
      /\ sess[s].hdr["ctype"] = sess[s].upHead.hdr["ctype"]
      /\ (sess[s].cl = "ended" =>
            sess[s].delivered = ChunksUpTo(sess[s].sent))

\* a complete relayed answer whose upstream named another origin
C2_Witness ==
  \E s \in Sessions :
    /\ IsGet(s, "left")
    /\ sess[s].cl = "ended"
    /\ sess[s].up = "ended"
    /\ sess[s].upHead.hdr["acao"] = "http://other.example"
    /\ sess[s].delivered = <<1, 2>>

\* ------------------------------------------------------------------ C3
C3_UnreachableAnswered(s) ==
  /\ sess[s].status = 500
  /\ sess[s].body.kind = "json"
  /\ sess[s].body.json["error"] # "absent"
  /\ sess[s].cl \in {"ended", "gone"}
  /\ ~UpOpen(s)

\* C3: when the controller cannot be reached, a request to a command route or
\* to /api/sensor is answered with HTTP 500 and a JSON body with an `error`
\* field, and handling the failure leaves the gateway running, with the
\* session closed off.
C3_ControllerUnreachable ==
  /\ [](\A s \in Sessions, c \in ControllerNames :
          (IsGet(s, c) /\ sess[s].fault = "unreachable") =>
             C3_UnreachableAnswered(s))
  /\ [][\A s \in Sessions, c \in ControllerNames :
          (IsGet(s, c) /\ sess[s].fault = "none"
             /\ sess'[s].fault \in {"unreachable", "crash"}
             /\ Head(sess[s].wire).code \in ConnectErrors)
            => (alive' /\ sess'[s].fault = "unreachable")]_vars

\* a command failed on an unreachable controller while the gateway, still
\* running, answered another client
C3_Witness ==
  \E s \in Sessions, t \in Sessions :
    /\ s # t
    /\ IsGet(s, "forward")
    /\ sess[s].fault = "unreachable"
    /\ sess[s].cl = "ended"
    /\ alive
    /\ IsGet(t, "status")
    /\ sess[t].status = 200

\* ------------------------------------------------------------------ C4
Answered(s) == sess[s].up \in {"streaming", "paused", "ended"}

\* C4: for GET /api/stream answered by the camera, the response written to
\* the client has Content-Type exactly the fixed multipart value, whatever
\* the camera reported, and Cache-Control: no-cache, no-store,
\* must-revalidate, Pragma: no-cache, Expires: 0 and
\* Access-Control-Allow-Origin: *.
C4_StreamHeaders ==
  \A s \in Sessions :
    (IsGet(s, "stream") /\ Answered(s)) =>
      /\ sess[s].hdr["ctype"] = STREAM_CONTENT_TYPE
      /\ sess[s].hdr["cache"] = "no-cache, no-store, must-revalidate"
      /\ sess[s].hdr["pragma"] = "no-cache"
      /\ sess[s].hdr["expires"] = "0"
      /\ sess[s].hdr["acao"] = "*"

C6_StreamAndSensorTargets ==
  \A s \in Sessions :
    /\ IsGet(s, "stream") =>
         \A i \in DOMAIN sess[s].upReqs :
           /\ sess[s].upReqs[i].host = ESP_CAM_IP(build)
           /\ sess[s].upReqs[i].host # ESP_CAR_IP
           /\ sess[s].upReqs[i].path = <<"stream">>
    /\ IsGet(s, "sensor") =>
         \A i \in DOMAIN sess[s].upReqs :
           /\ sess[s].upReqs[i].host = ESP_CAR_IP
           /\ sess[s].upReqs[i].path = <<"sensor">>

\* ------------------------------------------------------------------ C7
\* C7: when the client aborts a /api/stream request whose relay is under
\* way, the gateway eventually closes its connection to the camera for that
\* session; and a client leaving changes no other session.
C7_AbortClosesUpstream ==
  /\ \A s \in Sessions :
       (IsGet(s, "stream") /\ sess[s].cl = "gone" /\ sess[s].body.kind = "upstream")
          ~> ~UpOpen(s)
  /\ [][\A s \in Sessions :
          ((sess[s].cl # "gone" /\ sess'[s].cl = "gone")
             \/ (sess[s].closeEv /\ ~sess'[s].closeEv /\ alive'))
            => \A t \in Sessions \ {s} : sess'[t] = sess[t]]_vars

\* ------------------------------------------------------------------ C8
\* C8: when the camera drops the connection during a /api/stream relay, the
\* client connection of that session is eventually closed, and the gateway
\* sends no second request to the camera for that session.
C8_UpstreamDropClosesClient ==
  /\ \A s \in Sessions :
       (IsGet(s, "stream") /\ sess[s].fault \in {"premature", "reset", "crash"})
          ~> (sess[s].cl # "streaming")
  /\ [](\A s \in Sessions : IsGet(s, "stream") => Len(sess[s].upReqs) <= 1)

\* ------------------------------------------------------------------ C9
WireChunks(s) == Len(SelectSeq(sess[s].wire, LAMBDA e : e.type = "chunk"))

\* C9: the stream relay keeps content and order and does not buffer: what the
\* client has received is a prefix of what the camera sent, every chunk that
\* reached the gateway has been written to the client, and a response that
\* is complete holds every chunk the camera sent.
C9_StreamRelay ==
  \A s \in Sessions :
    IsGet(s, "stream") =>
      /\ sess[s].delivered = ChunksUpTo(Len(sess[s].delivered))
      /\ Len(sess[s].delivered) <= sess[s].sent
      /\ (sess[s].cl = "streaming" /\ sess[s].up = "streaming") =>
            Len(sess[s].delivered) + WireChunks(s) = sess[s].sent
      /\ sess[s].cl = "ended" => sess[s].delivered = ChunksUpTo(sess[s].sent)

\* ----------------------------------------------------------------- C10
\* C10: a proxied session does not stay pending forever: a client waiting for
\* the upstream eventually gets a response (or leaves).
C10_SessionBounded ==
  \A s \in Sessions :
    (IsProxied(s) /\ sess[s].cl = "waiting") ~> (sess[s].cl # "waiting")

\* ----------------------------------------------------------------- C11
\* the listener that handles the next upstream event of a session
HandleEvent(t) ==
  \/ OnProxyRes(t)
  \/ OnData(t)
  \/ OnEnd(t)
  \/ OnUpstreamClose(t)
  \/ OnProxyError(t)

PendingCommand(s) ==
  \E c \in Commands : IsGet(s, c) /\ sess[s].cl = "waiting"

\* C11: while a request to a command route is pending on a slow or hung
\* controller, the gateway still accepts a request from another client, a
\* session on another route that is reading its upstream still has the
\* upstream's events handled, and a GET /api/status is answered at once, without an upstream, in every
\* interleaving.
C11_ConcurrentIndependent ==
  \A s \in Sessions, t \in Sessions :
    (s # t /\ PendingCommand(s)) =>
      /\ (t \in clients /\ sess[t].cl = "none") => ENABLED Request(t)
      /\ (sess[t].up \in {"pending", "streaming"} /\ sess[t].wire # << >>) =>
           ENABLED HandleEvent(t)
      /\ IsGet(t, "status") =>
           /\ sess[t].cl = "ended"
           /\ sess[t].status = 200
           /\ sess[t].up = "none"

\* /api/forward waits for a controller that has sent nothing, and meanwhile
\* /api/stop was relayed in full to another client
C11_Witness ==
  \E s \in Sessions, t \in Sessions :
    /\ s # t
    /\ IsGet(s, "forward")
    /\ sess[s].cl = "waiting"
    /\ sess[s].src = "req"
    /\ sess[s].wire = << >>
    /\ IsGet(t, "stop")
    /\ sess[t].cl = "ended"
    /\ sess[t].body.kind = "upstream"
    /\ sess[t].delivered = ChunksUpTo(MaxChunks)

\* ----------------------------------------------------------------- C12
\* C12: GET /api/status is always answered with HTTP 200 and a body with
\* status "OK", car_ip the controller address and cam_ip the camera address
\* of the configuration, whatever the other sessions and the upstreams do,
\* and handling it issues no upstream request.
C12_StatusAlwaysOk ==
  \A s \in Sessions :
    IsGet(s, "status") =>
      /\ sess[s].cl = "ended"
      /\ sess[s].headWrites = 1
      /\ sess[s].status = 200
      /\ sess[s].body.kind = "json"
      /\ sess[s].body.json["status"] = "OK"
      /\ sess[s].body.json["car_ip"] = "192.168.4.1"
      /\ sess[s].body.json["cam_ip"] =
           (IF build = "index" THEN "192.168.225.143" ELSE "192.168.1.100")
      /\ sess[s].body.json["error"] = "absent"
      /\ sess[s].upReqs = << >>
      /\ sess[s].up = "none"

\* /api/status answered while a command of another client has just failed on
\* an unreachable controller
C12_Witness ==
  \E s \in Sessions, t \in Sessions :
    /\ s # t
    /\ IsGet(s, "status")
    /\ sess[s].status = 200
    /\ IsGet(t, "stop")
    /\ sess[t].fault = "unreachable"
    /\ sess[t].status = 500

\* ----------------------------------------------------------------- C13
RegisteredPaths == {Routes(build)[i].path : i \in DOMAIN Routes(build)}

\* C13: only a GET whose path equals a registered path is forwarded: a request
\* with another method, or with a path that is not exactly a registered one,
\* is answered by the default handler and causes no upstream request.
C13_OnlyExactGetForwarded ==
  \A s \in Sessions :
    (sess[s].cl # "none"
       /\ (sess[s].method # "GET" \/ sess[s].path \notin RegisteredPaths)) =>
      /\ sess[s].route = 0
      /\ sess[s].status = 404
      /\ sess[s].upReqs = << >>

\* ----------------------------------------------------------------- C14
\* C14: every response on an /api path carries
\* Access-Control-Allow-Origin: *, relayed upstream responses of /api/sensor
\* and of the commands, /api/status and the error responses included.
C14_CorsUniform ==
  \A s \in Sessions :
    (sess[s].cl # "none" /\ IsPrefix(<<"api">>, sess[s].path)
       /\ sess[s].headWrites > 0) =>
      sess[s].hdr["acao"] = "*"

\* ----------------------------------------------------------------- C15
\* C15: each request gets exactly one response: the head is written at most
\* once, no error callback runs on a response whose head was already sent
\* (no session ends with the process brought down or its response cut), and
\* a GET /api/stream whose camera answered is answered by the relayed
\* camera response, not by an error response.
C15_ExactlyOneResponse ==
  \A s \in Sessions :
    /\ sess[s].headWrites <= 1
    /\ sess[s].fault # "crash"
    /\ sess[s].cl # "dropped"
    /\ (IsGet(s, "stream") /\ Answered(s)) =>
         /\ sess[s].body.kind = "upstream"
         /\ sess[s].status = sess[s].upHead.status

\* ----------------------------------------------------------------- C16
SameRequest(s, t) ==
  /\ sess[s].cl # "none"
  /\ sess[t].cl # "none"
  /\ sess[s].method = sess[t].method
  /\ sess[s].path = sess[t].path
  /\ sess[s].query = sess[t].query

====
